---- MODULE Spec2Model ----
(***************************************************************************)
(* Model of json_store_client.Client: an HTTP client for www.jsonstore.io. *)
(* The client's three calls (get, save, delete) are actions; the remote    *)
(* store and the transport are the environment: for every request the      *)
(* backend either serves it faithfully or answers with a fault.            *)
(***************************************************************************)
EXTENDS Integers, Sequences, FiniteSets, TLC

\* ------------------------------------------------------------------ bounds
MaxInt == 0

\* --------------------------------------------------------------- constants
DEFAULT_TIMEOUT_SECONDS == 5

Tokens == {"abc123", "tok2"}
Keys == {"k", "user:1"}

\* ------------------------------------------------- Python / JSON values
\* Every value is a node [t, s, c]: a type tag, a scalar payload and the
\* children. A raised exception is the node Raise(class name).
N(t, s, c) == [t |-> t, s |-> s, c |-> c]
Raise(e) == N("raise", e, <<>>)
IsRaise(x) == x.t = "raise"

PyNone == N("none", "", <<>>)
PyBool(b) == N("bool", IF b THEN "true" ELSE "false", <<>>)
PyInt(i) == N("int", ToString(i), <<>>)
\* a str given by its characters; none of the literals used here is JSON text
PyStr(s) == N("str", s, <<>>)
PyList(c) == N("list", "", c)
PyTuple(c) == N("tuple", "", c)
Entry(k, v) == N("entry", k, <<v>>)
PyDict(es) == N("dict", "", es)
\* a str whose characters are the JSON serialisation of the tree
PyText(tree) == N("str", "", <<tree>>)
Absent == N("absent", "", <<>>)

HasKey(d, k) == \E i \in 1..Len(d.c) : d.c[i].s = k
Lookup(d, k) == d.c[CHOOSE i \in 1..Len(d.c) : d.c[i].s = k].c[1]

\* jsonpickle's reserved tag for tuples
TUPLE == "py/tuple"

\* ------------------------------------------------------------ json module
RECURSIVE Jsonify(_)
\* what json.dumps writes for a value: a tuple is written as an array
Jsonify(v) ==
    IF v.t = "tuple" THEN PyList([i \in 1..Len(v.c) |-> Jsonify(v.c[i])])
    ELSE IF v.t \in {"list", "dict", "entry"}
         THEN N(v.t, v.s, [i \in 1..Len(v.c) |-> Jsonify(v.c[i])])
    ELSE v

json_dumps(v) == PyText(Jsonify(v))

\* json.loads: TypeError for a non-str, ValueError for a str that is not
\* JSON text, else the parsed tree
json_loads(s) ==
    IF s.t # "str" THEN Raise("TypeError")
    ELSE IF s.c = <<>> THEN Raise("ValueError")
    ELSE s.c[1]

\* ------------------------------------------------------------- jsonpickle
RECURSIVE Flatten(_)
\* Pickler.flatten: scalars as they are, containers element-wise, a tuple as
\* an object {"py/tuple": [...]}; string keys of a dict are kept unescaped
Flatten(v) ==
    IF v.t = "tuple"
    THEN PyDict(<<Entry(TUPLE, PyList([i \in 1..Len(v.c) |-> Flatten(v.c[i])]))>>)
    ELSE IF v.t \in {"list", "dict", "entry"}
         THEN N(v.t, v.s, [i \in 1..Len(v.c) |-> Flatten(v.c[i])])
    ELSE v

AnyRaise(c) == \E i \in 1..Len(c) : IsRaise(c[i])
FirstRaise(c) == c[CHOOSE i \in 1..Len(c) : IsRaise(c[i])]

RECURSIVE Restore(_)
\* Unpickler.restore: an object carrying the py/tuple tag becomes a tuple of
\* the restored elements of its payload (iterating a payload that is not
\* iterable is a TypeError); other containers are restored element-wise
Restore(o) ==
    IF o.t = "dict" /\ HasKey(o, TUPLE)
    THEN LET p == Lookup(o, TUPLE)
             r == [i \in 1..Len(p.c) |-> Restore(p.c[i])]
         IN  IF p.t # "list" THEN Raise("TypeError")
             ELSE IF AnyRaise(r) THEN FirstRaise(r)
             ELSE PyTuple(r)
    ELSE IF o.t \in {"list", "dict", "entry"}
         THEN LET r == [i \in 1..Len(o.c) |-> Restore(o.c[i])]
              IN  IF AnyRaise(r) THEN FirstRaise(r) ELSE N(o.t, o.s, r)
    ELSE o

jsonpickle_encode(v) == json_dumps(Flatten(v))

jsonpickle_decode(s) ==
    LET tree == json_loads(s)
    IN  IF IsRaise(tree) THEN tree ELSE Restore(tree)

\* ---------------------------------------------------------------- requests
\* what a transport call yields: an exception of the transport (exc # "")
\* or a Response with a status code and a body text
Response(status, text) ==
    [exc |-> "", cls |-> "Response", status_code |-> status, text |-> text]
TransportError(e) ==
    [exc |-> e, cls |-> "", status_code |-> 0, text |-> PyStr("")]

\* Response.raise_for_status: HTTPError for 4xx and 5xx
raise_for_status(response) ==
    IF 400 <= response.status_code /\ response.status_code < 600
    THEN Raise("HTTPError") ELSE PyNone

\* Response.json: JSONDecodeError, a ValueError, for a body that is not JSON
response_json(response) ==
    LET r == json_loads(response.text)
    IN  IF IsRaise(r) THEN Raise("ValueError") ELSE r

\* Python's `x in y`: defined for containers and strings only
Iterable(y) == y.t \in {"dict", "list", "tuple", "str"}
SubstringOk(lit) == lit \in {"ok", "xoky"}
In_ok(y) ==
    CASE y.t = "dict" -> HasKey(y, "ok")
      [] y.t \in {"list", "tuple"} -> \E i \in 1..Len(y.c) : y.c[i] = PyStr("ok")
      [] OTHER -> y.c = <<>> /\ SubstringOk(y.s)

\* Python's y["result"]
GetItem_result(y) ==
    IF y.t = "dict"
    THEN IF HasKey(y, "result") THEN Lookup(y, "result") ELSE Raise("KeyError")
    ELSE Raise("TypeError")

\* ------------------------------------------------------------------ Client
check_response_parse_leaks(response) ==
    IF response.cls # "Response" THEN Raise("TypeError")
    ELSE IF IsRaise(raise_for_status(response)) THEN raise_for_status(response)
    ELSE LET resp == response_json(response)
         IN  IF IsRaise(resp) THEN Raise("RequestException")
             ELSE IF ~Iterable(resp) THEN Raise("TypeError")
             ELSE IF ~In_ok(resp) THEN Raise("JsonstoreError")
             ELSE resp

check_response(response) ==
    IF response.cls # "Response" THEN Raise("TypeError")
    ELSE IF IsRaise(raise_for_status(response)) THEN raise_for_status(response)
    ELSE LET resp == response_json(response)
         IN  IF IsRaise(resp) THEN resp
             ELSE IF ~Iterable(resp) THEN Raise("TypeError")
             ELSE IF ~In_ok(resp) THEN Raise("JsonstoreError")
             ELSE resp

finalize_url_no_slash(base, key) == base \o key

finalize_url(base, key) == base \o "/" \o key

\* the except clause shared by get, save and delete
Caught == {"ValueError", "KeyError"}

\* ------------------------------------------------------------------ inputs
Timeouts == {DEFAULT_TIMEOUT_SECONDS}

\* the values a caller saves: integers, a list, a tuple, string-keyed mappings
Values ==
    {PyInt(i) : i \in 0..MaxInt}
    \cup {PyList(<<PyInt(0), PyStr("Alice")>>),
          PyTuple(<<PyInt(0)>>),
          PyDict(<<Entry("name", PyStr("Alice"))>>),
          PyDict(<<Entry(TUPLE, PyList(<<PyInt(0)>>))>>)}

\* ----------------------------------------------------------------- backend
OkTrue == Entry("ok", PyBool(TRUE))
OkFalse == Entry("ok", PyBool(FALSE))

\* the backend's representations of a key that holds nothing
MissingReplies ==
    {Response(404, PyText(PyDict(<<OkFalse>>))),
     Response(200, PyText(PyDict(<<OkTrue>>))),
     Response(200, PyText(PyDict(<<Entry("result", PyNone), OkTrue>>)))}

\* what the transport or a misbehaving backend can answer to any request
CommonFaults ==
    {TransportError("Timeout"),
     Response(500, PyStr("<html>Internal Server Error</html>")),
     Response(404, PyText(PyDict(<<OkFalse>>))),
     Response(200, PyStr("<html>")),
     Response(200, PyText(PyDict(<<OkFalse>>))),
     Response(200, PyText(PyDict(<<>>))),
     Response(200, PyText(PyInt(5))),
     Response(200, PyText(PyStr("xoky"))),
     Response(200, PyText(PyDict(<<OkTrue>>)))}

\* further answers to a GET: a result without ok, a null result, a result
\* that is not JSON text
GetFaults ==
    {Response(200, PyText(PyDict(<<Entry("result", PyText(PyInt(1)))>>))),
     Response(200, PyText(PyDict(<<Entry("result", PyNone), OkTrue>>))),
     Response(200, PyText(PyDict(<<Entry("result", PyStr("abc")), OkTrue>>)))}

FaultReplies(method) ==
    IF method = "GET" THEN CommonFaults \cup GetFaults ELSE CommonFaults

VARIABLES token, base_url, session_headers, store, history, last

vars == <<token, base_url, session_headers, store, history, last>>

\* ------------------------------------------------------- session headers
\* header names are case-insensitive (requests' CaseInsensitiveDict)
Lower(name) ==
    CASE name = "Accept" -> "accept"
      [] name = "Content-type" -> "content-type"
      [] name = "Content-Type" -> "content-type"
      [] OTHER -> name

default_headers ==
    [n \in {"user-agent", "accept-encoding", "accept", "connection"} |->
        CASE n = "user-agent" -> "python-requests"
          [] n = "accept-encoding" -> "gzip, deflate"
          [] n = "accept" -> "*/*"
          [] OTHER -> "keep-alive"]

headers_update(h, upd) ==
    [n \in DOMAIN h \cup {Lower(p[1]) : p \in upd} |->
        IF \E p \in upd : Lower(p[1]) = n
        THEN (CHOOSE p \in upd : Lower(p[1]) = n)[2]
        ELSE h[n]]

Header(h, name) == IF Lower(name) \in DOMAIN h THEN h[Lower(name)] ELSE ""

\* ----------------------------------------------------------- construction
NoCall ==
    [op |-> "none", key |-> "", data |-> Absent, sent |-> <<>>,
     reply |-> TransportError(""), how |-> "", before |-> N("never", "", <<>>),
     outcome |-> PyNone]

init(t) ==
    /\ session_headers = headers_update(default_headers,
            {<<"Accept", "application/json">>, <<"Content-type", "application/json">>})
    /\ base_url = "https://www.jsonstore.io/" \o t

URLs == {finalize_url(base_url, k) : k \in Keys}

Init ==
    /\ token \in Tokens
    /\ init(token)
    /\ store = [u \in URLs |-> Absent]
    /\ history = [u \in URLs |-> N("never", "", <<>>)]
    /\ last = NoCall

\* ------------------------------------------------------ transport + backend
Request(method, url, data, timeout) ==
    [method |-> method, url |-> url, headers |-> session_headers,
     data |-> data, timeout |-> timeout]

Saved(v) == N("saved", "", <<v>>)
Deleted == N("deleted", "", <<>>)

\* the backend serving a request as the wire protocol says
Served(req, data) ==
    CASE req.method = "GET" ->
            {[reply |-> r, store |-> store, history |-> history, how |-> "served"] :
                r \in IF store[req.url] = Absent THEN MissingReplies
                      ELSE {Response(200, PyText(PyDict(
                                <<Entry("result", store[req.url]), OkTrue>>)))}}
      [] req.method = "POST" ->
            {[reply |-> Response(200, PyText(PyDict(<<OkTrue>>))),
              store |-> [store EXCEPT ![req.url] = json_loads(req.data)],
              history |-> [history EXCEPT ![req.url] = Saved(data)],
              how |-> "served"]}
      [] OTHER ->
            {[reply |-> Response(200, PyText(PyDict(<<OkTrue>>))),
              store |-> [store EXCEPT ![req.url] = Absent],
              history |-> [history EXCEPT ![req.url] = Deleted],
              how |-> "served"]}

\* every way one request can end: served, or answered with a fault and the
\* store untouched
Backend(req, data) ==
    Served(req, data)
    \cup {[reply |-> r, store |-> store, history |-> history, how |-> "fault"] :
            r \in FaultReplies(req.method)}

Called(op, key, data, sent, b, outcome) ==
    /\ last' = [op |-> op, key |-> key, data |-> data, sent |-> sent,
                reply |-> b.reply, how |-> b.how,
                before |-> history[finalize_url(base_url, key)],
                outcome |-> outcome]
    /\ store' = b.store
    /\ history' = b.history
    /\ UNCHANGED <<token, base_url, session_headers>>

\* ------------------------------------------------------------ Client calls
\* the body of get's try block and its except clause, given what
\* session.get yielded
get_outcome(resp) ==
    LET r == IF resp.exc # "" THEN Raise(resp.exc)
             ELSE LET json_resp == check_response(resp)
                  IN  IF IsRaise(json_resp) THEN json_resp
                      ELSE LET result == GetItem_result(json_resp)
                           IN  IF IsRaise(result) THEN result
                               ELSE jsonpickle_decode(result)
    IN  IF IsRaise(r) /\ r.s \in Caught THEN Raise("JsonstoreError") ELSE r

get(key) ==
    \E timeout \in Timeouts :
        LET url == finalize_url(base_url, key)
            req == Request("GET", url, Absent, timeout)
        IN  \E b \in Backend(req, Absent) :
                Called("get", key, Absent, <<req>>, b, get_outcome(b.reply))

save_outcome(resp) ==
    LET r == IF resp.exc # "" THEN Raise(resp.exc)
             ELSE LET json_resp == check_response(resp)
                  IN  IF IsRaise(json_resp) THEN json_resp ELSE PyNone
    IN  IF IsRaise(r) /\ r.s \in Caught THEN Raise("JsonstoreError") ELSE r

save_single_encoded(key, data) ==
    \E timeout \in Timeouts :
        LET url == finalize_url(base_url, key)
            json_data == jsonpickle_encode(data)
            req == Request("POST", url, json_data, timeout)
        IN  \E b \in Backend(req, data) :
                Called("save", key, data, <<req>>, b, save_outcome(b.reply))

save(key, data) ==
    \E timeout \in Timeouts :
        LET url == finalize_url(base_url, key)
            json_data == json_dumps(jsonpickle_encode(data))
            req == Request("POST", url, json_data, timeout)
        IN  \E b \in Backend(req, data) :
                Called("save", key, data, <<req>>, b, save_outcome(b.reply))

delete_outcome(resp) ==
    LET r == IF resp.exc # "" THEN Raise(resp.exc)
             ELSE LET json_resp == check_response(resp)
                  IN  IF IsRaise(json_resp) THEN json_resp ELSE PyNone
    IN  IF IsRaise(r) /\ r.s \in Caught THEN Raise("JsonstoreError") ELSE r

delete_retrying(key) ==
    \E timeout \in Timeouts :
        LET url == finalize_url(base_url, key)
            req == Request("DELETE", url, Absent, timeout)
        IN  \E b \in Backend(req, Absent) :
                Called("delete", key, Absent,
                       IF IsRaise(delete_outcome(b.reply)) THEN <<req, req>> ELSE <<req>>,
                       b, delete_outcome(b.reply))

delete(key) ==
    \E timeout \in Timeouts :
        LET url == finalize_url(base_url, key)
            req == Request("DELETE", url, Absent, timeout)
        IN  \E b \in Backend(req, Absent) :
                Called("delete", key, Absent, <<req>>, b, delete_outcome(b.reply))

Next ==
    \/ \E key \in Keys : get(key)
    \/ \E key \in Keys, data \in Values : save(key, data)
    \/ \E key \in Keys : delete(key)

Spec == Init /\ [][Next]_vars

\* ================================================================== claims
JsonstoreError == Raise("JsonstoreError")
IsJsonText(text) == text.c # <<>>
ErrorStatus(reply) ==
    reply.exc = "" /\ 400 <= reply.status_code /\ reply.status_code < 600
IsObjectWithOk(body) == body.t = "dict" /\ HasKey(body, "ok")

RECURSIVE HasReservedKey(_)
HasReservedKey(v) ==
    \/ v.t = "dict" /\ HasKey(v, TUPLE)
    \/ \E i \in 1..Len(v.c) : HasReservedKey(v.c[i])

\* the last call was a get served by the backend for a key whose latest
\* served request was a save
GotAfterSave ==
    last.op = "get" /\ last.how = "served" /\ last.before.t = "saved"

C2_ErrorStatusRaisesStoreError ==
    (last.op # "none" /\ ErrorStatus(last.reply)) => last.outcome = JsonstoreError

\* C3: when the backend answers save with HTTP 200 and {"ok": false}, save
\* raises JsonstoreError.
C3_OkFalseRaisesStoreError ==
    (last.op = "save" /\ last.reply = Response(200, PyText(PyDict(<<OkFalse>>))))
        => last.outcome = JsonstoreError

\* C4: when the transport reports a timeout, get, save and delete fail with
\* JsonstoreError and with no other kind of error.
C4_TimeoutRaisesStoreError ==
    (last.op # "none" /\ last.reply.exc = "Timeout") => last.outcome = JsonstoreError

\* C5: for every HTTP 200 response whose body is valid JSON and lacks an ok
\* field, get, save and delete raise JsonstoreError.
C5_MissingOkRaisesStoreError ==
    (/\ last.op # "none"
     /\ last.reply.exc = ""
     /\ last.reply.status_code = 200
     /\ IsJsonText(last.reply.text)
     /\ ~IsObjectWithOk(json_loads(last.reply.text)))
        => last.outcome = JsonstoreError

\* C6: when a get's response passes validation but its result field is
\* absent or is not decodable (a non-string such as null included), get
\* raises JsonstoreError and no other kind of error.
C6_BadResultRaisesStoreError ==
    (/\ last.op = "get"
     /\ last.reply.exc = ""
     /\ ~ErrorStatus(last.reply)
     /\ IsJsonText(last.reply.text)
     /\ IsObjectWithOk(json_loads(last.reply.text))
     /\ LET body == json_loads(last.reply.text)
        IN  \/ ~HasKey(body, "result")
            \/ Lookup(body, "result").t # "str"
            \/ ~IsJsonText(Lookup(body, "result")))
        => last.outcome = JsonstoreError

\* C7: a served get(k) after delete(k) yields JsonstoreError or an empty
\* result, whichever representation of a missing key the backend uses, and
\* never another kind of error.
C7_GetAfterDelete ==
    (last.op = "get" /\ last.how = "served" /\ last.before.t = "deleted")
        => last.outcome \in {JsonstoreError, PyNone}

\* C8: for a 2xx response whose body is not JSON, get, save and delete raise
\* JsonstoreError.
C8_MalformedBodyRaisesStoreError ==
    (/\ last.op # "none"
     /\ last.reply.exc = ""
     /\ 200 <= last.reply.status_code /\ last.reply.status_code < 300
     /\ ~IsJsonText(last.reply.text))
        => last.outcome = JsonstoreError

C8_Witness ==
    /\ last.op = "delete"
    /\ last.reply = Response(200, PyStr("<html>"))
    /\ last.outcome = JsonstoreError

MethodOf(op) ==
    CASE op = "get" -> "GET" [] op = "save" -> "POST" [] OTHER -> "DELETE"

\* C9: every request of a call goes with the call's HTTP method to
\* https://www.jsonstore.io/<token>/<key>, with Accept and Content-Type set
\* to application/json, whatever calls came before.
C9_RequestTarget ==
    last.op # "none" =>
        /\ last.sent # <<>>
        /\ \A i \in 1..Len(last.sent) :
            /\ last.sent[i].method = MethodOf(last.op)
            /\ last.sent[i].url = "https://www.jsonstore.io/" \o token \o "/" \o last.key
            /\ Header(last.sent[i].headers, "Accept") = "application/json"
            /\ Header(last.sent[i].headers, "Content-Type") = "application/json"

C9_Witness ==
    /\ last.op = "get"
    /\ token = "abc123"
    /\ last.key = "k"
    /\ last.before.t = "deleted"
    /\ last.sent[1].method = "GET"
    /\ last.sent[1].url = "https://www.jsonstore.io/abc123/k"

\* a transport failure, a 4xx/5xx status, a body that is not JSON or a JSON
\* object without ok
FailedReply(reply) ==
    \/ reply.exc # ""
    \/ ErrorStatus(reply)
    \/ ~IsJsonText(reply.text)
    \/ (json_loads(reply.text).t = "dict" /\ ~HasKey(json_loads(reply.text), "ok"))

====
